---- MODULE Spec2Model ----
(***************************************************************************)
(* crossplane-diagnose: tree construction (pkg/tree), forest filtering     *)
(* (cmd root command) and failure summary (pkg/report).                    *)
(*                                                                         *)
(* Strings are modelled as sequences of atoms (short TLA+ strings):        *)
(* "" is <<>>, fmt.Sprintf is concatenation, strings.Contains is a search  *)
(* for an atom, strings.ToLower maps atoms, strings.Count counts atoms.    *)
(* The atoms "False", "Unknown" and "/" are never part of another atom.    *)
(***************************************************************************)
EXTENDS Integers, Sequences, FiniteSets, TLC

VARIABLES
    store,            \* the objects the resource API serves (dynamic client)
    allItems,         \* the composites listed by discovery, in order
    idx,              \* position of the build loop in allItems
    results,          \* []report.CompositeData built so far
    filteredResults,  \* results after the redundant-resource filter
    summary,          \* text returned by report.GetSummary
    hasFailures,      \* flag returned by report.GetSummary
    pc,               \* step of rootCmd.Run: build, filter, summary, done
    calls,            \* the Get and List requests sent to the API, in order
    stack,            \* call stack of one BuildTree run, one frame per buildNodeRecursive
    bpc,              \* position of that BuildTree run: idle, running, returned
    ret               \* the value that BuildTree run returned

vars == <<store, allItems, idx, results, filteredResults, summary, hasFailures, pc,
          calls, stack, bpc, ret>>

(***************************************************************************)
(* Bounds of the model.                                                    *)
(***************************************************************************)
MaxConds == 3
MaxRefs == 3
MaxRoots == 3

(***************************************************************************)
(* Strings.                                                                *)
(***************************************************************************)
Empty == <<>>

S(a) == <<a>>

Contains(s, a) == \E i \in 1..Len(s) : s[i] = a

Count(s, a) == Cardinality({i \in 1..Len(s) : s[i] = a})

Index(s, a) == CHOOSE i \in 1..Len(s) : s[i] = a /\ \A j \in 1..(i - 1) : s[j] # a

LowerAtom(a) ==
    CASE a = "XDb" -> "xdb"
      [] a = "Rds" -> "rds"
      [] a = "Usage" -> "usage"
      [] a = "EnvironmentConfig" -> "environmentconfig"
      [] OTHER -> a

ToLower(s) == [i \in 1..Len(s) |-> LowerAtom(s[i])]

SeqSetUpTo(T, n) == UNION {[1..k -> T] : k \in 0..n}

(***************************************************************************)
(* schema.ParseGroupVersion: "" and "/" give the empty GroupVersion, no    *)
(* slash gives a version, one slash a group and a version, more an error.  *)
(***************************************************************************)
ParseGroupVersion(gv) ==
    IF Len(gv) = 0 \/ gv = S("/")
    THEN [err |-> FALSE, Group |-> Empty, Version |-> Empty]
    ELSE IF Count(gv, "/") = 0
    THEN [err |-> FALSE, Group |-> Empty, Version |-> gv]
    ELSE IF Count(gv, "/") = 1
    THEN [err |-> FALSE,
          Group |-> SubSeq(gv, 1, Index(gv, "/") - 1),
          Version |-> SubSeq(gv, Index(gv, "/") + 1, Len(gv))]
    ELSE [err |-> TRUE, Group |-> Empty, Version |-> Empty]

\* Naive pluralization: strings.ToLower(kind) + "s".
Pluralize(kind) == ToLower(kind) \o S("s")

GVR(gv, kind) == [Group |-> gv.Group, Version |-> gv.Version, Resource |-> Pluralize(kind)]

(***************************************************************************)
(* The resource API: client.Resource(gvr).Get(name).                       *)
(***************************************************************************)
Matches(st, gvr, name) ==
    {o \in st : /\ o.group = gvr.Group
                /\ o.version = gvr.Version
                /\ o.resource = gvr.Resource
                /\ o.name = name}

Get(st, gvr, name) ==
    IF Matches(st, gvr, name) = {}
    THEN [err |-> TRUE, msg |-> gvr.Resource \o S(" ") \o name \o S(" not found")]
    ELSE [err |-> FALSE, obj |-> CHOOSE o \in Matches(st, gvr, name) : TRUE]

(***************************************************************************)
(* report.ResourceStatus and report.CompositeData.                         *)
(***************************************************************************)
Nil == [nil |-> TRUE]

ResourceStatus(kind, name, synced, ready, status, events, conditions, children) ==
    [Kind |-> kind, Name |-> name, Synced |-> synced, Ready |-> ready,
     Status |-> status, Events |-> events, Conditions |-> conditions,
     Children |-> children]

CompositeData(name, kind, tree, error) ==
    [Name |-> name, Kind |-> kind, Tree |-> tree, Error |-> error]

Available == S("Available")
Unhealthy == S("Unhealthy")
Unknown == S("Unknown")
True == S("True")

(***************************************************************************)
(* buildNodeRecursive, first part: the loop over status.conditions.        *)
(* acc is the node state [Synced, Ready, Conditions] carried by the loop.  *)
(***************************************************************************)
FormatCondition(c) ==
    c.type \o S("=") \o c.status \o S(" (") \o c.reason \o S("): ") \o c.message

\* Variant of CondStep: the first record of a type wins instead of the last.
CondStepFirstWins(acc, c) ==
    IF ~c.isMap
    THEN acc
    ELSE [Synced |-> IF c.type = S("Synced") /\ acc.Synced = Unknown
                     THEN c.status ELSE acc.Synced,
          Ready |-> IF c.type = S("Ready") /\ acc.Ready = Unknown
                    THEN c.status ELSE acc.Ready,
          Conditions |-> Append(acc.Conditions, FormatCondition(c))]

CondStep(acc, c) ==
    IF ~c.isMap
    THEN acc
    ELSE [Synced |-> IF c.type = S("Synced") THEN c.status ELSE acc.Synced,
          Ready |-> IF c.type = S("Ready") THEN c.status ELSE acc.Ready,
          Conditions |-> Append(acc.Conditions, FormatCondition(c))]

RECURSIVE CondLoop(_, _)
CondLoop(acc, conds) ==
    IF conds = <<>> THEN acc
    ELSE CondLoop(CondStep(acc, Head(conds)), Tail(conds))

\* Variant of ExtractStatus: Synced and Ready start empty instead of "Unknown".
ExtractStatusEmptyDefault(obj) ==
    IF obj.conditionsFound
    THEN CondLoop([Synced |-> Empty, Ready |-> Empty, Conditions |-> <<>>], obj.conditions)
    ELSE [Synced |-> Empty, Ready |-> Empty, Conditions |-> <<>>]

ExtractStatus(obj) ==
    IF obj.conditionsFound
    THEN CondLoop([Synced |-> Unknown, Ready |-> Unknown, Conditions |-> <<>>],
                  obj.conditions)
    ELSE [Synced |-> Unknown, Ready |-> Unknown, Conditions |-> <<>>]

OverallStatus(ready, synced) ==
    IF ready = True /\ synced = True THEN Available ELSE Unhealthy

(***************************************************************************)
(* fetchEvents: the List call on events with the field selector of the     *)
(* object; an error leaves node.Events nil.                                *)
(***************************************************************************)
FormatEvent(e) ==
    S("[") \o e.type \o S("] ") \o e.reason \o S(": ") \o e.message

fetchEvents(obj) ==
    IF obj.eventsErr
    THEN [err |-> TRUE, events |-> <<>>]
    ELSE [err |-> FALSE,
          events |-> [i \in 1..Len(obj.eventItems) |-> FormatEvent(obj.eventItems[i])]]

(***************************************************************************)
(* buildNodeRecursive, second part: the loop over spec.resourceRefs.       *)
(***************************************************************************)
\* Variant of RefSkipped: the error of ParseGroupVersion is ignored.
RefSkippedIgnoringParseError(ref) ==
    \/ ~ref.isMap
    \/ ref.apiVersion = Empty \/ ref.kind = Empty \/ ref.name = Empty

RefSkipped(ref) ==
    \/ ~ref.isMap
    \/ ref.apiVersion = Empty \/ ref.kind = Empty \/ ref.name = Empty
    \/ ParseGroupVersion(ref.apiVersion).err

ErrorChild(ref, msg) ==
    ResourceStatus(ref.kind, ref.name, Empty, Empty,
                   S("Error fetching: ") \o msg, <<>>, <<>>, <<>>)

RECURSIVE buildNodeRecursive(_, _)
RECURSIVE RefLoop(_, _, _)

\* Variant of RefLoop: a failed fetch ends the loop (break instead of continue).
RECURSIVE RefLoopBreakOnError(_, _, _)
RefLoopBreakOnError(st, children, refs) ==
    IF refs = <<>> THEN children
    ELSE LET ref == Head(refs)
             got == Get(st, GVR(ParseGroupVersion(ref.apiVersion), ref.kind), ref.name)
         IN  IF RefSkipped(ref)
             THEN RefLoopBreakOnError(st, children, Tail(refs))
             ELSE IF got.err
             THEN Append(children, ErrorChild(ref, got.msg))
             ELSE RefLoopBreakOnError(st, Append(children, buildNodeRecursive(st, got.obj)),
                                      Tail(refs))

RefLoop(st, children, refs) ==
    IF refs = <<>> THEN children
    ELSE LET ref == Head(refs)
             got == Get(st, GVR(ParseGroupVersion(ref.apiVersion), ref.kind), ref.name)
         IN  IF RefSkipped(ref)
             THEN RefLoop(st, children, Tail(refs))
             ELSE IF got.err
             THEN RefLoop(st, Append(children, ErrorChild(ref, got.msg)), Tail(refs))
             ELSE RefLoop(st, Append(children, buildNodeRecursive(st, got.obj)), Tail(refs))

buildNodeRecursive(st, obj) ==
    LET ext == ExtractStatus(obj)
        ev == fetchEvents(obj)
    IN  ResourceStatus(obj.kind, obj.name, ext.Synced, ext.Ready,
                       OverallStatus(ext.Ready, ext.Synced),
                       IF ev.err THEN <<>> ELSE ev.events,
                       ext.Conditions,
                       IF obj.refsFound THEN RefLoop(st, <<>>, obj.refs) ELSE <<>>)

BuildTree(st, gvr, name) ==
    LET got == Get(st, gvr, name)
    IN  IF got.err
        THEN [root |-> Nil,
              err |-> S("failed to get XR ") \o name \o S(": ") \o got.msg]
        ELSE [root |-> buildNodeRecursive(st, got.obj), err |-> Empty]

(***************************************************************************)
(* The requests a build sends: one Get per fetch (tree.go 27 and 114) and  *)
(* one List of events per call of fetchEvents (tree.go 76, 155).           *)
(***************************************************************************)
GetCall(st, gvr, name) ==
    [op |-> "Get", target |-> gvr.Resource, name |-> name, ok |-> ~Get(st, gvr, name).err]

ListCall(obj) ==
    [op |-> "List", target |-> obj.kind, name |-> obj.name, ok |-> ~obj.eventsErr]

RECURSIVE buildNodeCalls(_, _)
RECURSIVE RefCalls(_, _)

RefCalls(st, refs) ==
    IF refs = <<>> THEN <<>>
    ELSE LET ref == Head(refs)
             gvr == GVR(ParseGroupVersion(ref.apiVersion), ref.kind)
             got == Get(st, gvr, ref.name)
         IN  IF RefSkipped(ref)
             THEN RefCalls(st, Tail(refs))
             ELSE <<GetCall(st, gvr, ref.name)>>
                      \o (IF got.err THEN <<>> ELSE buildNodeCalls(st, got.obj))
                      \o RefCalls(st, Tail(refs))

\* Variant of buildNodeCalls: events are looked up for unhealthy nodes only.
buildNodeCallsUnhealthyOnly(st, obj) ==
    (IF OverallStatus(ExtractStatus(obj).Ready, ExtractStatus(obj).Synced) = Available
     THEN <<>> ELSE <<ListCall(obj)>>)
        \o (IF obj.refsFound THEN RefCalls(st, obj.refs) ELSE <<>>)

buildNodeCalls(st, obj) ==
    <<ListCall(obj)>> \o (IF obj.refsFound THEN RefCalls(st, obj.refs) ELSE <<>>)

BuildTreeCalls(st, gvr, name) ==
    <<GetCall(st, gvr, name)>>
        \o (IF Get(st, gvr, name).err THEN <<>> ELSE buildNodeCalls(st, Get(st, gvr, name).obj))

(***************************************************************************)
(* rootCmd.Run, step 4: filter redundant resources.                        *)
(***************************************************************************)
\* Variant of Key: the kind is left out of the key.
KeyNameOnly(kind, name) == name

Key(kind, name) == kind \o S("/") \o name

RECURSIVE collectChildren(_, _)
RECURSIVE CollectLoop(_, _)

CollectLoop(kids, children) ==
    IF kids = <<>> THEN children
    ELSE CollectLoop(Tail(kids),
                     collectChildren(Head(kids),
                                     children \cup {Key(Head(kids).Kind, Head(kids).Name)}))

\* Variant of collectChildren: direct children only, no recursion.
collectChildrenShallow(node, children) ==
    children \cup {Key(node.Children[i].Kind, node.Children[i].Name) :
                      i \in 1..Len(node.Children)}

collectChildren(node, children) == CollectLoop(node.Children, children)

RECURSIVE ChildResources(_, _)
ChildResources(res, children) ==
    IF res = <<>> THEN children
    ELSE ChildResources(Tail(res),
                        IF Head(res).Tree # Nil
                        THEN collectChildren(Head(res).Tree, children)
                        ELSE children)

\* Variant of FilterLoop: the membership test is inverted.
RECURSIVE FilterLoopInverted(_, _, _)
FilterLoopInverted(res, childResources, filtered) ==
    IF res = <<>> THEN filtered
    ELSE FilterLoopInverted(Tail(res), childResources,
                            IF Key(Head(res).Kind, Head(res).Name) \in childResources
                            THEN Append(filtered, Head(res))
                            ELSE filtered)

RECURSIVE FilterLoop(_, _, _)
FilterLoop(res, childResources, filtered) ==
    IF res = <<>> THEN filtered
    ELSE FilterLoop(Tail(res), childResources,
                    IF Key(Head(res).Kind, Head(res).Name) \notin childResources
                    THEN Append(filtered, Head(res))
                    ELSE filtered)

FilterRedundant(res) == FilterLoop(res, ChildResources(res, {}), <<>>)

(***************************************************************************)
(* report.GetSummary.  The text is the sequence of the strings written to  *)
(* the builder, one element per Fprintln/Fprintf call.  The two leading    *)
(* symbols of the "Top Parent" and the all-healthy line are left out.      *)
(***************************************************************************)
RECURSIVE collectUnhealthy(_)
RECURSIVE UnhealthyLoop(_, _)

UnhealthyLoop(kids, unhealthy) ==
    IF kids = <<>> THEN unhealthy
    ELSE UnhealthyLoop(Tail(kids), unhealthy \o collectUnhealthy(Head(kids)))

\* Variant of collectUnhealthy: the children are not visited.
collectUnhealthyRootOnly(node) ==
    IF node.Status # Available /\ node.Status # S("Synced") THEN <<node>> ELSE <<>>

collectUnhealthy(node) ==
    UnhealthyLoop(node.Children,
                  IF node.Status # Available /\ node.Status # S("Synced")
                  THEN <<node>> ELSE <<>>)

UnknownReason == <<"Unknown", " reason">>

\* Variant of ReasonLoop: no break, the last matching condition wins.
RECURSIVE ReasonLoopNoBreak(_, _)
ReasonLoopNoBreak(conds, reason) ==
    IF conds = <<>> THEN reason
    ELSE ReasonLoopNoBreak(Tail(conds),
                           IF Contains(Head(conds), "False") \/ Contains(Head(conds), "Unknown")
                           THEN Head(conds) ELSE reason)

\* for _, cond := range res.Conditions { if Contains... { reason = cond; break } }
RECURSIVE ReasonLoop(_, _)
ReasonLoop(conds, reason) ==
    IF conds = <<>> THEN reason
    ELSE IF Contains(Head(conds), "False") \/ Contains(Head(conds), "Unknown")
    THEN Head(conds)
    ELSE ReasonLoop(Tail(conds), reason)

Reason(res) ==
    IF Len(res.Conditions) > 0
    THEN LET reason == ReasonLoop(res.Conditions, UnknownReason)
         IN  IF reason = UnknownReason THEN res.Conditions[1] ELSE reason
    ELSE IF Len(res.Events) > 0
    THEN res.Events[1]
    ELSE UnknownReason

SummaryHeader == <<"\n--- Summary ---\n">>

HealthyLine == <<"All resources are healthy!\n">>

TopParentLine(d) == S("Top Parent: ") \o d.Kind \o S("/") \o d.Name \o S("\n")

ChildLine(res) ==
    S("  - Child ") \o res.Kind \o S("/") \o res.Name \o S(": ") \o res.Status
        \o S("\n    Reason: ") \o Reason(res) \o S("\n")

ChildLines(unhealthy) == [i \in 1..Len(unhealthy) |-> ChildLine(unhealthy[i])]

\* Variant of SummaryStep: an entry without a tree is reported as a failure.
SummaryStepReportingNil(acc, d) ==
    IF d.Tree = Nil
    THEN [sb |-> acc.sb \o <<TopParentLine(d)>> \o <<S("\n")>>,
          failuresFound |-> TRUE,
          hasFailures |-> TRUE]
    ELSE IF Len(collectUnhealthy(d.Tree)) > 0
    THEN [sb |-> acc.sb \o <<TopParentLine(d)>> \o ChildLines(collectUnhealthy(d.Tree))
                        \o <<S("\n")>>,
          failuresFound |-> TRUE,
          hasFailures |-> TRUE]
    ELSE acc

\* One iteration of the loop over data; acc is [sb, failuresFound, hasFailures].
SummaryStep(acc, d) ==
    IF d.Tree # Nil /\ Len(collectUnhealthy(d.Tree)) > 0
    THEN [sb |-> acc.sb \o <<TopParentLine(d)>> \o ChildLines(collectUnhealthy(d.Tree))
                        \o <<S("\n")>>,
          failuresFound |-> TRUE,
          hasFailures |-> TRUE]
    ELSE acc

RECURSIVE SummaryLoop(_, _)
SummaryLoop(acc, data) ==
    IF data = <<>> THEN acc
    ELSE SummaryLoop(SummaryStep(acc, Head(data)), Tail(data))

GetSummary(data) ==
    LET acc == SummaryLoop([sb |-> <<SummaryHeader>>, failuresFound |-> FALSE,
                            hasFailures |-> FALSE], data)
    IN  [text |-> IF ~acc.failuresFound THEN Append(acc.sb, HealthyLine) ELSE acc.sb,
         hasFailures |-> acc.hasFailures]

(***************************************************************************)
(* rootCmd.Run as a state machine.                                         *)
(***************************************************************************)
\* Variant of Analyze: a root whose fetch fails is skipped.
AnalyzeSkipFailed ==
    /\ pc = "build"
    /\ idx <= Len(allItems)
    /\ LET item == allItems[idx]
           gv == ParseGroupVersion(item.APIVersion)
           built == BuildTree(store, GVR(gv, item.Kind), item.Name)
       IN  results' = IF gv.err \/ built.root = Nil
                      THEN results
                      ELSE Append(results,
                                  CompositeData(item.Name, item.Kind, built.root, built.err))
    /\ calls' = LET item == allItems[idx]
                     gv == ParseGroupVersion(item.APIVersion)
                 IN  IF gv.err THEN calls
                     ELSE calls \o BuildTreeCalls(store, GVR(gv, item.Kind), item.Name)
    /\ idx' = idx + 1
    /\ UNCHANGED <<store, allItems, filteredResults, summary, hasFailures, pc>>
    /\ UNCHANGED <<stack, bpc, ret>>

\* Step 3, one iteration of "for _, item := range allItems".
Analyze ==
    /\ pc = "build"
    /\ idx <= Len(allItems)
    /\ LET item == allItems[idx]
           gv == ParseGroupVersion(item.APIVersion)
           built == BuildTree(store, GVR(gv, item.Kind), item.Name)
       IN  results' = IF gv.err
                      THEN results
                      ELSE Append(results,
                                  CompositeData(item.Name, item.Kind, built.root, built.err))
    /\ calls' = LET item == allItems[idx]
                     gv == ParseGroupVersion(item.APIVersion)
                 IN  IF gv.err THEN calls
                     ELSE calls \o BuildTreeCalls(store, GVR(gv, item.Kind), item.Name)
    /\ idx' = idx + 1
    /\ UNCHANGED <<store, allItems, filteredResults, summary, hasFailures, pc>>
    /\ UNCHANGED <<stack, bpc, ret>>

\* Step 4, after the build loop.
Filter ==
    /\ pc = "build"
    /\ idx > Len(allItems)
    /\ filteredResults' = FilterRedundant(results)
    /\ pc' = "summary"
    /\ UNCHANGED <<store, allItems, idx, results, summary, hasFailures>>
    /\ UNCHANGED <<calls, stack, bpc, ret>>

\* Step 6, the summary of the filtered results.
Summarize ==
    /\ pc = "summary"
    /\ summary' = GetSummary(filteredResults).text
    /\ hasFailures' = GetSummary(filteredResults).hasFailures
    /\ pc' = "done"
    /\ UNCHANGED <<store, allItems, idx, results, filteredResults>>
    /\ UNCHANGED <<calls, stack, bpc, ret>>

Next == Analyze \/ Filter \/ Summarize

(***************************************************************************)
(* The inputs: what the API serves and what discovery lists.               *)
(***************************************************************************)
GV1 == <<"g", "/", "v1">>

Obj(kind, name, conds, refs, events) ==
    [group |-> S("g"), version |-> S("v1"), resource |-> Pluralize(kind), name |-> name,
     kind |-> kind, conditionsFound |-> conds.found, conditions |-> conds.list,
     refsFound |-> refs.found, refs |-> refs.list,
     eventsErr |-> events.err, eventItems |-> events.items]

NotFound == [found |-> FALSE, list |-> <<>>]
Found(list) == [found |-> TRUE, list |-> list]

EventsError == [err |-> TRUE, items |-> <<>>]
Events(items) == [err |-> FALSE, items |-> items]

Cond(type, status, reason, message) ==
    [isMap |-> TRUE, type |-> type, status |-> status, reason |-> reason, message |-> message]

NonMapCond == [isMap |-> FALSE, type |-> Empty, status |-> Empty, reason |-> Empty,
               message |-> Empty]

Ref(apiVersion, kind, name) ==
    [isMap |-> TRUE, apiVersion |-> apiVersion, kind |-> kind, name |-> name]

NonMapRef == [isMap |-> FALSE, apiVersion |-> Empty, kind |-> Empty, name |-> Empty]

Item(apiVersion, kind, name) == [APIVersion |-> apiVersion, Kind |-> kind, Name |-> name]

Event1 == [type |-> S("Warning"), reason |-> S("CannotCreate"), message |-> S("denied")]
Event2 == [type |-> S("Normal"), reason |-> S("Created"), message |-> Empty]

CondEntries ==
    {NonMapCond,
     Cond(S("Ready"), True, Empty, Empty),
     Cond(S("Ready"), S("False"), S("CreateFailed"), S("AWS error")),
     Cond(S("Ready"), Unknown, Empty, Empty),
     Cond(S("Ready"), True, Empty, <<"Unknown", " host">>),
     Cond(S("Synced"), True, Empty, Empty),
     Cond(S("Synced"), S("False"), S("ReconcileError"), Empty),
     Cond(S("Synced"), Empty, Empty, Empty),
     Cond(S("Healthy"), True, Empty, Empty),
     Cond(S("Healthy"), S("False"), Empty, Empty)}

EventChoices == {EventsError, Events(<<>>), Events(<<Event1, Event2>>)}

ClassifyKinds == {S("XDb"), S("Usage"), S("EnvironmentConfig")}

\* One root without references; every condition list up to MaxConds.
ClassifyStores ==
    {{Obj(k, S("a"), Found(cs), NotFound, Events(<<>>))} :
        k \in ClassifyKinds, cs \in SeqSetUpTo(CondEntries, MaxConds) \ {<<>>}}
    \cup
    {{Obj(k, S("a"), c, NotFound, e)} :
        k \in ClassifyKinds, c \in {NotFound, Found(<<>>)}, e \in EventChoices}

InitCommon ==
    /\ idx = 1
    /\ results = <<>>
    /\ filteredResults = <<>>
    /\ summary = <<>>
    /\ hasFailures = FALSE
    /\ pc = "build"
    /\ calls = <<>>
    /\ stack = <<>>
    /\ bpc = "idle"
    /\ ret = Nil

InitClassify ==
    /\ store \in ClassifyStores
    /\ \E o \in store : allItems = <<Item(GV1, o.kind, o.name)>>
    /\ InitCommon

SpecClassify == InitClassify /\ [][Next]_vars

\* One root "a" whose reference list is any list up to MaxRefs; "b" and "c"
\* may be absent from the API, so that fetching them fails.
XDb == S("XDb")

RefEntries ==
    {NonMapRef,
     Ref(GV1, XDb, S("b")),
     Ref(GV1, XDb, S("c")),
     Ref(GV1, S("xdb"), S("b")),
     Ref(Empty, XDb, S("b")),
     Ref(GV1, Empty, S("b")),
     Ref(GV1, XDb, Empty),
     Ref(<<"g", "/", "v1", "/", "x">>, XDb, S("b")),
     Ref(S("v1"), XDb, S("c"))}

CondsHealthy == Found(<<Cond(S("Ready"), True, Empty, Empty), Cond(S("Synced"), True, Empty, Empty)>>)

CondsFailed ==
    Found(<<Cond(S("Synced"), True, Empty, Empty),
            Cond(S("Ready"), S("False"), S("CreateFailed"), S("AWS error")),
            Cond(S("Healthy"), S("False"), Empty, Empty)>>)

CondsReadyOnly == Found(<<Cond(S("Ready"), True, Empty, Empty)>>)

RefsStores ==
    {{Obj(XDb, S("a"), CondsHealthy, r, Events(<<>>))} \cup b \cup c :
        r \in {NotFound} \cup {Found(l) : l \in SeqSetUpTo(RefEntries, MaxRefs)},
        b \in {{},
                {Obj(XDb, S("b"), CondsFailed, NotFound, Events(<<Event1>>))},
                {Obj(XDb, S("b"), CondsHealthy, Found(<<Ref(GV1, XDb, S("c"))>>), Events(<<>>))}},
        c \in {{}, {Obj(XDb, S("c"), CondsHealthy, NotFound, EventsError)}}}

InitRefs ==
    /\ store \in RefsStores
    /\ allItems = <<Item(GV1, XDb, S("a"))>>
    /\ InitCommon

SpecRefs == InitRefs /\ [][Next]_vars

\* Several roots "a", "b", "c" that may reference each other (a -> b -> c).
Profiles ==
    {[conds |-> CondsHealthy, events |-> Events(<<Event2>>)],
     [conds |-> CondsFailed, events |-> Events(<<Event1>>)],
     [conds |-> CondsReadyOnly, events |-> Events(<<>>)],
     [conds |-> NotFound, events |-> Events(<<Event1, Event2>>)],
     [conds |-> Found(<<>>), events |-> EventsError]}

RefsOfA ==
    {NotFound,
     Found(<<Ref(GV1, XDb, S("b"))>>),
     Found(<<Ref(GV1, XDb, S("b")), Ref(GV1, XDb, S("c"))>>),
     Found(<<Ref(<<"g", "/", "v2">>, XDb, S("c")), Ref(GV1, XDb, S("b"))>>)}

RefsOfB ==
    {NotFound,
     Found(<<Ref(GV1, XDb, S("c"))>>),
     Found(<<Ref(GV1, S("Rds"), S("a"))>>)}

LeafProfiles ==
    {[conds |-> CondsHealthy, events |-> Events(<<Event2>>)],
     [conds |-> CondsFailed, events |-> Events(<<Event1>>)]}

ObjChoices(name, profiles, refChoices) ==
    {{}} \cup {{Obj(XDb, name, p.conds, r, p.events)} : p \in profiles, r \in refChoices}

ForestStores ==
    {a \cup b \cup c : a \in ObjChoices(S("a"), Profiles, RefsOfA),
                       b \in ObjChoices(S("b"), Profiles, RefsOfB),
                       c \in ObjChoices(S("c"), LeafProfiles, {NotFound})}

ItemChoices ==
    {Item(GV1, XDb, S("a")), Item(GV1, XDb, S("b")), Item(GV1, XDb, S("c")),
     Item(<<"g", "/", "v1", "/", "x">>, XDb, S("a"))}

Injective(seq) == \A i, j \in 1..Len(seq) : seq[i] = seq[j] => i = j

ItemLists == {l \in SeqSetUpTo(ItemChoices, MaxRoots) : Injective(l)}

InitForest ==
    /\ store \in ForestStores
    /\ allItems \in ItemLists
    /\ InitCommon

Spec == InitForest /\ [][Next]_vars

(***************************************************************************)
(* Vocabulary of the properties.                                           *)
(***************************************************************************)
RECURSIVE Descendants(_)
Descendants(node) ==
    UNION {{node.Children[i]} \cup Descendants(node.Children[i]) :
              i \in 1..Len(node.Children)}

NodesOf(node) == {node} \cup Descendants(node)

Trees(forest) == {forest[i].Tree : i \in {j \in 1..Len(forest) : forest[j].Tree # Nil}}

IsErrorLeaf(n) == Len(n.Status) > 0 /\ n.Status[1] = "Error fetching: "

FetchedNodes == {n \in UNION {NodesOf(t) : t \in Trees(results)} : ~IsErrorLeaf(n)}

SourceOf(n) == CHOOSE o \in store : o.kind = n.Kind /\ o.name = n.Name

\* The positions of the condition records of a type, and the last of them.
CondsOfType(o, t) ==
    {i \in 1..Len(o.conditions) : o.conditions[i].isMap /\ o.conditions[i].type = S(t)}

Last(I) == CHOOSE i \in I : \A j \in I : j <= i

LastIsTrue(o, t) ==
    /\ o.conditionsFound
    /\ CondsOfType(o, t) # {}
    /\ o.conditions[Last(CondsOfType(o, t))].status = S("True")

\* C1: a fetched node is "Available" iff the last Ready and the last Synced
\* condition of its resource both have status exactly "True", and it is
\* "Unhealthy" in every other case.
C1_AvailableIffLastReadySyncedTrue ==
    \A n \in FetchedNodes :
        /\ n.Status = Available <=>
              (LastIsTrue(SourceOf(n), "Ready") /\ LastIsTrue(SourceOf(n), "Synced"))
        /\ n.Status # Available => n.Status = Unhealthy

\* A node that is Available although an earlier Ready record was not "True".
C1_Witness ==
    \E n \in FetchedNodes :
        /\ n.Status = Available
        /\ \E i \in CondsOfType(SourceOf(n), "Ready") :
              SourceOf(n).conditions[i].status # S("True")

DescendantPair(kind, name, forest) ==
    \E t \in Trees(forest) : \E n \in Descendants(t) : n.Kind = kind /\ n.Name = name

\* C2: after the filter no surviving entry has a root (kind, name) that is a
\* descendant in a tree of the forest.
C2_NoSurvivingRootIsDescendant ==
    pc \in {"summary", "done"} =>
        \A i \in 1..Len(filteredResults) :
            ~DescendantPair(filteredResults[i].Kind, filteredResults[i].Name, results)

\* A root was removed because it is a fetch-error leaf of another tree.
C2_Witness ==
    /\ pc = "done"
    /\ Len(filteredResults) < Len(results)
    /\ \E i \in 1..Len(results) : \E t \in Trees(results) : \E n \in Descendants(t) :
          IsErrorLeaf(n) /\ n.Kind = results[i].Kind /\ n.Name = results[i].Name

\* C3: the filter applied to its own output returns that output.
C3_FilterIdempotent ==
    pc \in {"summary", "done"} => FilterRedundant(filteredResults) = filteredResults

\* A chain of nested roots: three trees built, only the outermost survives.
C3_Witness ==
    /\ pc = "done"
    /\ Len(results) = 3
    /\ Len(filteredResults) = 1
    /\ \A i \in 1..3 : results[i].Tree # Nil

SubSeqAt(seq, K) ==
    LET RECURSIVE Pick(_)
        Pick(i) == IF i > Len(seq) THEN <<>>
                   ELSE (IF i \in K THEN <<seq[i]>> ELSE <<>>) \o Pick(i + 1)
    IN  Pick(1)

\* C4: the filter output is the input with whole entries removed, in the
\* input order, and only entries whose root pair is a descendant are removed.
C4_FilterRemovesOnlyDescendantRoots ==
    pc \in {"summary", "done"} =>
        \E K \in SUBSET (1..Len(results)) :
            /\ filteredResults = SubSeqAt(results, K)
            /\ \A i \in (1..Len(results)) \ K :
                  DescendantPair(results[i].Kind, results[i].Name, results)

\* An entry in the middle was removed and the entries around it survive.
C4_Witness ==
    /\ pc = "done"
    /\ Len(results) = 3
    /\ filteredResults = <<results[1], results[3]>>

\* A reference that yields a child: a map with the three fields non-empty
\* and an apiVersion with at most one slash.
ValidRef(ref) ==
    /\ ref.isMap
    /\ ref.apiVersion # <<>> /\ ref.kind # <<>> /\ ref.name # <<>>
    /\ Cardinality({i \in 1..Len(ref.apiVersion) : ref.apiVersion[i] = "/"}) <= 1

ValidRefs(o) == IF o.refsFound THEN SelectSeq(o.refs, ValidRef) ELSE <<>>

FetchOf(ref) == Get(store, GVR(ParseGroupVersion(ref.apiVersion), ref.kind), ref.name)

\* C5: the children of a fetched node are, one for one and in order, the
\* valid entries of its reference list; other entries yield no child.
C5_ChildrenAreTheValidRefs ==
    \A n \in FetchedNodes :
        LET v == ValidRefs(SourceOf(n))
        IN  /\ Len(n.Children) = Len(v)
            /\ \A k \in 1..Len(v) :
                  /\ n.Children[k].Name = v[k].name
                  /\ ToLower(n.Children[k].Kind) = ToLower(v[k].kind)

\* Three references, the second with an unparsable apiVersion, two children.
C5_Witness ==
    \E n \in FetchedNodes :
        LET refs == SourceOf(n).refs
        IN  /\ Len(refs) = 3
            /\ ValidRef(refs[1]) /\ ValidRef(refs[3])
            /\ refs[2].isMap /\ ParseGroupVersion(refs[2].apiVersion).err
            /\ Len(n.Children) = 2

\* C6: a valid reference whose fetch fails yields, at its position, a leaf
\* with the kind and name of the reference and the status "Error fetching:
\* <message>" and nothing else; the references after it are still built.
C6_FetchErrorYieldsLeaf ==
    \A n \in FetchedNodes :
        LET v == ValidRefs(SourceOf(n))
        IN  /\ Len(n.Children) = Len(v)
            /\ \A k \in 1..Len(v) :
                  IF FetchOf(v[k]).err
                  THEN n.Children[k] =
                         [Kind |-> v[k].kind, Name |-> v[k].name,
                          Synced |-> <<>>, Ready |-> <<>>,
                          Status |-> <<"Error fetching: ">> \o FetchOf(v[k]).msg,
                          Events |-> <<>>, Conditions |-> <<>>, Children |-> <<>>]
                  ELSE /\ n.Children[k].Status \in {Available, Unhealthy}
                       /\ n.Children[k].Name = FetchOf(v[k]).obj.name

\* An error leaf followed by a sibling that was fetched and built.
C6_Witness ==
    \E n \in FetchedNodes : \E k \in 1..(Len(n.Children) - 1) :
        /\ IsErrorLeaf(n.Children[k])
        /\ ~IsErrorLeaf(n.Children[k + 1])
        /\ n.Children[k + 1].Children # <<>>

RootFetch(item) == Get(store, GVR(ParseGroupVersion(item.APIVersion), item.Kind), item.Name)

EntryOf(item, res) ==
    /\ res.Name = item.Name
    /\ res.Kind = item.Kind
    /\ RootFetch(item).err => res.Tree = Nil /\ res.Error # <<>>
    /\ ~RootFetch(item).err => res.Tree # Nil /\ res.Error = <<>>

\* C7 as stated: after the build loop the forest has one entry per listed
\* root, in input order, with a nil tree and an error where the fetch failed.
C7_OneEntryPerRoot ==
    pc # "build" =>
        /\ Len(results) = Len(allItems)
        /\ \A i \in 1..Len(allItems) : i <= Len(results) /\ EntryOf(allItems[i], results[i])

ParsableItem(item) ==
    Cardinality({i \in 1..Len(item.APIVersion) : item.APIVersion[i] = "/"}) <= 1

\* C7 amended: the forest has one entry, in input order, per listed root
\* whose apiVersion parses; a root with an unparsable apiVersion has no
\* entry; a failed fetch gives a nil tree and a non-empty error, and the
\* roots after it are still built.
C7_OneEntryPerParsableRoot ==
    LET done == SelectSeq(SubSeq(allItems, 1, idx - 1), ParsableItem)
    IN  /\ Len(results) = Len(done)
        /\ \A i \in 1..Len(done) : EntryOf(done[i], results[i])

\* A root was skipped, and a nil tree is followed by a built tree.
C7_Witness ==
    /\ pc = "done"
    /\ Len(results) < Len(allItems)
    /\ \E i \in 1..(Len(results) - 1) :
          /\ results[i].Tree = Nil /\ results[i].Error # <<>>
          /\ results[i + 1].Tree # Nil

SentinelEmitted == \E i \in 1..Len(summary) : summary[i] = <<"All resources are healthy!\n">>

\* C8: hasFailures is true iff some tree of the summarised forest has a node
\* that is not "Available", and the all-healthy line is written exactly
\* when hasFailures is false.
C8_HasFailuresIffUnhealthyNode ==
    pc = "done" =>
        /\ hasFailures <=>
              \E t \in Trees(filteredResults) : \E n \in NodesOf(t) : n.Status # Available
        /\ SentinelEmitted <=> ~hasFailures

\* A forest with a root, a child and a grandchild, all Available.
C8_Witness ==
    /\ pc = "done"
    /\ ~hasFailures
    /\ SentinelEmitted
    /\ \E t \in Trees(filteredResults) : \E n \in Descendants(t) : n.Children # <<>>

RECURSIVE PreOrder(_)
PreOrder(node) ==
    LET RECURSIVE From(_)
        From(i) == IF i > Len(node.Children) THEN <<>>
                   ELSE PreOrder(node.Children[i]) \o From(i + 1)
    IN  <<node>> \o From(1)

NotAvailable(n) == n.Status # Available

Mentions(line) == \E j \in 1..Len(line) : line[j] \in {"False", "Unknown"}

ExpectedReason(n) ==
    LET M == {i \in 1..Len(n.Conditions) : Mentions(n.Conditions[i])}
    IN  IF M # {} THEN n.Conditions[CHOOSE i \in M : \A j \in M : i <= j]
        ELSE IF n.Conditions # <<>> THEN n.Conditions[1]
        ELSE IF n.Events # <<>> THEN n.Events[1]
        ELSE <<"Unknown", " reason">>

ExpectedLine(n) ==
    <<"  - Child ">> \o n.Kind \o <<"/">> \o n.Name \o <<": ">> \o n.Status
        \o <<"\n    Reason: ">> \o ExpectedReason(n) \o <<"\n">>

ExpectedGroup(d) ==
    IF d.Tree = Nil THEN <<>>
    ELSE LET u == SelectSeq(PreOrder(d.Tree), NotAvailable)
         IN  IF u = <<>> THEN <<>>
             ELSE <<TopParentLine(d)>> \o [i \in 1..Len(u) |-> ExpectedLine(u[i])]
                      \o << <<"\n">> >>

RECURSIVE ExpectedGroups(_)
ExpectedGroups(forest) ==
    IF forest = <<>> THEN <<>>
    ELSE ExpectedGroup(Head(forest)) \o ExpectedGroups(Tail(forest))

\* C9: under the header of its tree the summary lists the nodes that are not
\* "Available" in depth-first pre-order, each with the reason: the first
\* condition line that contains "False" or "Unknown", else the first
\* condition line, else the first event line, else "Unknown reason".
C9_ReasonAndPreOrder ==
    pc = "done" =>
        LET groups == ExpectedGroups(filteredResults)
        IN  /\ Len(summary) >= 1 + Len(groups)
            /\ SubSeq(summary, 2, 1 + Len(groups)) = groups
            /\ Len(summary) = 1 + Len(groups) + (IF groups = <<>> THEN 1 ELSE 0)

\* A tree whose root, first child, grandchild and second child are all
\* listed, one of them with a reason that is not its first condition line.
C9_Witness ==
    /\ pc = "done"
    /\ \E t \in Trees(filteredResults) :
          /\ Len(t.Children) = 2
          /\ t.Children[1].Children # <<>>
          /\ \A n \in NodesOf(t) : n.Status # Available
          /\ \E n \in NodesOf(t) :
                n.Conditions # <<>> /\ ExpectedReason(n) # n.Conditions[1]
          /\ \E i \in 1..Len(summary) : summary[i] = ExpectedLine(t.Children[1].Children[1])

IgnoredKinds == {<<"Usage">>, <<"EnvironmentConfig">>}

\* C10: a resource of kind Usage or EnvironmentConfig is "Available"
\* whatever its conditions are, and is never listed in the summary.
C10_IgnoredKindsAreAvailable ==
    \A n \in FetchedNodes :
        n.Kind \in IgnoredKinds =>
            /\ n.Status = Available
            /\ \A i \in 1..Len(summary) : summary[i] # ChildLine(n)

BuiltNodes == UNION {NodesOf(t) : t \in Trees(results)}

ConditionStates == {<<"True">>, <<"False">>, <<"Unknown">>}

\* C11 as stated: the syncedState and readyState of every node, fetch-error
\* leaves included, is one of "True", "False", "Unknown".
C11_StatesAreTrueFalseUnknown ==
    \A n \in BuiltNodes : n.Synced \in ConditionStates /\ n.Ready \in ConditionStates

StateOf(o, t) ==
    IF ~o.conditionsFound \/ CondsOfType(o, t) = {}
    THEN <<"Unknown">>
    ELSE o.conditions[Last(CondsOfType(o, t))].status

\* C11 amended: a fetched node has "Unknown" for a condition that is absent
\* and otherwise the status string of the last condition of that type; a
\* fetch-error leaf has the empty string for both states.
C11_StatesOfFetchedNodesAndErrorLeaves ==
    \A n \in BuiltNodes :
        IF IsErrorLeaf(n)
        THEN n.Synced = <<>> /\ n.Ready = <<>>
        ELSE /\ n.Synced = StateOf(SourceOf(n), "Synced")
             /\ n.Ready = StateOf(SourceOf(n), "Ready")

\* A fetched node without a Synced condition next to a fetch-error leaf.
C11_Witness ==
    \E t \in Trees(results) :
        /\ \E n \in NodesOf(t) :
              /\ ~IsErrorLeaf(n)
              /\ CondsOfType(SourceOf(n), "Synced") = {}
              /\ CondsOfType(SourceOf(n), "Ready") # {}
              /\ n.Synced = <<"Unknown">>
        /\ \E n \in NodesOf(t) : IsErrorLeaf(n)

RECURSIVE PreOrderOfForest(_)
PreOrderOfForest(forest) ==
    IF forest = <<>> THEN <<>>
    ELSE (IF Head(forest).Tree = Nil THEN <<>> ELSE PreOrder(Head(forest).Tree))
             \o PreOrderOfForest(Tail(forest))

IsList(c) == c.op = "List"

EventLookups ==
    LET l == SelectSeq(calls, IsList) IN [i \in 1..Len(l) |-> <<l[i].target, l[i].name>>]

Identities(nodes) == [i \in 1..Len(nodes) |-> <<nodes[i].Kind, nodes[i].Name>>]

LookupFollowsOwnFetch ==
    \A p \in 1..Len(calls) :
        calls[p].op = "List" =>
            /\ p > 1
            /\ calls[p - 1].op = "Get" /\ calls[p - 1].ok
            /\ calls[p - 1].name = calls[p].name

NotErrorLeaf(n) == ~IsErrorLeaf(n)

MaxDepth == 5

RefsOf(obj) == IF obj.refsFound THEN obj.refs ELSE <<>>

Frame(obj) == [obj |-> obj, i |-> 1, children |-> <<>>]

Top == stack[Len(stack)]

ReplaceTop(f) == [stack EXCEPT ![Len(stack)] = f]

\* BuildTree: fetch the root, then the first call of buildNodeRecursive.
EnterBuildTree ==
    /\ bpc = "idle"
    /\ allItems # <<>>
    /\ LET got == Get(store, GVR(ParseGroupVersion(allItems[1].APIVersion), allItems[1].Kind),
                      allItems[1].Name)
       IN  IF got.err
           THEN /\ ret' = [root |-> Nil,
                           err |-> S("failed to get XR ") \o allItems[1].Name \o S(": ")
                                       \o got.msg]
                /\ bpc' = "returned"
                /\ stack' = stack
           ELSE /\ stack' = <<Frame(got.obj)>>
                /\ bpc' = "running"
                /\ ret' = ret
    /\ UNCHANGED <<store, allItems, idx, results, filteredResults, summary, hasFailures, pc,
                   calls>>

\* Variant of RefStep: a reference to an object that is already on the
\* stack is not followed (a visited set).
RefStepWithVisitedSet ==
    /\ bpc = "running"
    /\ Top.i <= Len(RefsOf(Top.obj))
    /\ LET ref == RefsOf(Top.obj)[Top.i]
           got == Get(store, GVR(ParseGroupVersion(ref.apiVersion), ref.kind), ref.name)
       IN  IF RefSkipped(ref)
           THEN stack' = ReplaceTop([Top EXCEPT !.i = @ + 1])
           ELSE IF got.err
           THEN stack' = ReplaceTop([Top EXCEPT !.i = @ + 1,
                                                !.children = Append(@, ErrorChild(ref, got.msg))])
           ELSE IF \E k \in 1..Len(stack) : stack[k].obj = got.obj
           THEN stack' = ReplaceTop([Top EXCEPT !.i = @ + 1])
           ELSE /\ Len(stack) < MaxDepth
                /\ stack' = Append(stack, Frame(got.obj))
    /\ UNCHANGED <<store, allItems, idx, results, filteredResults, summary, hasFailures, pc,
                   calls, bpc, ret>>

\* One iteration of the loop over the references of the running call.
RefStep ==
    /\ bpc = "running"
    /\ Top.i <= Len(RefsOf(Top.obj))
    /\ LET ref == RefsOf(Top.obj)[Top.i]
           got == Get(store, GVR(ParseGroupVersion(ref.apiVersion), ref.kind), ref.name)
       IN  IF RefSkipped(ref)
           THEN stack' = ReplaceTop([Top EXCEPT !.i = @ + 1])
           ELSE IF got.err
           THEN stack' = ReplaceTop([Top EXCEPT !.i = @ + 1,
                                                !.children = Append(@, ErrorChild(ref, got.msg))])
           ELSE /\ Len(stack) < MaxDepth
                /\ stack' = Append(stack, Frame(got.obj))
    /\ UNCHANGED <<store, allItems, idx, results, filteredResults, summary, hasFailures, pc,
                   calls, bpc, ret>>

NodeOfFrame(f) ==
    LET ext == ExtractStatus(f.obj)
        ev == fetchEvents(f.obj)
    IN  ResourceStatus(f.obj.kind, f.obj.name, ext.Synced, ext.Ready,
                       OverallStatus(ext.Ready, ext.Synced),
                       IF ev.err THEN <<>> ELSE ev.events,
                       ext.Conditions, f.children)

\* "return node": the node goes to the children of the caller, or to the
\* caller of BuildTree.
ReturnNode ==
    /\ bpc = "running"
    /\ Top.i > Len(RefsOf(Top.obj))
    /\ IF Len(stack) = 1
       THEN /\ ret' = [root |-> NodeOfFrame(Top), err |-> Empty]
            /\ bpc' = "returned"
            /\ stack' = <<>>
       ELSE /\ stack' = [SubSeq(stack, 1, Len(stack) - 1) EXCEPT
                            ![Len(stack) - 1] =
                                [@ EXCEPT !.i = @ + 1,
                                          !.children = Append(@, NodeOfFrame(Top))]]
            /\ UNCHANGED <<bpc, ret>>
    /\ UNCHANGED <<store, allItems, idx, results, filteredResults, summary, hasFailures, pc,
                   calls>>

NextRec == EnterBuildTree \/ RefStep \/ ReturnNode

\* Objects "a", "b", "c" whose references may point back (a -> a, b -> a, ...).
RefTo(name) == Ref(GV1, XDb, S(name))

RecRefsOfA ==
    {NotFound, Found(<<RefTo("b")>>), Found(<<RefTo("b"), RefTo("c")>>),
     Found(<<RefTo("c"), RefTo("b")>>), Found(<<RefTo("a")>>),
     Found(<<Ref(<<"g", "/", "v2">>, XDb, S("a")), RefTo("b")>>)}

RecRefsOfB ==
    {NotFound, Found(<<RefTo("c")>>), Found(<<RefTo("c"), RefTo("c")>>),
     Found(<<RefTo("a")>>), Found(<<RefTo("b")>>), Found(<<NonMapRef, RefTo("c"), RefTo("a")>>)}

RecRefsOfC == {NotFound, Found(<<RefTo("a")>>), Found(<<RefTo("b")>>), Found(<<RefTo("c")>>)}

RecObjChoices(name, refChoices) ==
    {{}} \cup {{Obj(XDb, S(name), CondsHealthy, r, Events(<<>>))} : r \in refChoices}

RecStores ==
    {a \cup b \cup c : a \in RecObjChoices("a", RecRefsOfA),
                       b \in RecObjChoices("b", RecRefsOfB),
                       c \in RecObjChoices("c", RecRefsOfC)}

InitRec ==
    /\ store \in RecStores
    /\ allItems = <<Item(GV1, XDb, S("a"))>>
    /\ InitCommon

SpecRec == InitRec /\ [][NextRec]_vars /\ WF_vars(NextRec)

\* The reference graph: o -> p when a valid reference of o fetches p.
RefersTo(o, p) ==
    \E i \in 1..Len(RefsOf(o)) :
        /\ ValidRef(RefsOf(o)[i])
        /\ ~FetchOf(RefsOf(o)[i]).err
        /\ FetchOf(RefsOf(o)[i]).obj = p

RECURSIVE ReachableIn(_, _)
ReachableIn(from, n) ==
    IF n = 0 THEN from
    ELSE ReachableIn(from \cup {p \in store : \E o \in from : RefersTo(o, p)}, n - 1)

Reachable(from) == ReachableIn(from, Cardinality(store))

Successors(o) == Reachable({p \in store : RefersTo(o, p)})

RootObjects == IF allItems = <<>> \/ RootFetch(allItems[1]).err THEN {}
               ELSE {RootFetch(allItems[1]).obj}

CycleReachable == \E o \in Reachable(RootObjects) : o \in Successors(o)

Returned == bpc = "returned"

\* C13: BuildTree returns for every reference graph without a cycle
\* reachable from the root; with such a cycle it never returns and the
\* recursion gets as deep as the stack is allowed to grow.
C13_ReturnsIffNoReachableCycle ==
    /\ ~CycleReachable => <>Returned
    /\ CycleReachable => ([]~Returned /\ <>(Len(stack) = MaxDepth))

\* A cycle through more than one object: the stack is at MaxDepth, deeper
\* than the number of objects, after a first reference that did return.
C13_Witness ==
    /\ CycleReachable
    /\ Len(stack) = MaxDepth
    /\ Len(stack) > Cardinality(store)
    /\ stack[1].children # <<>>
    /\ stack[1].obj # stack[2].obj

HasTree(d) == d.Tree # Nil

NilEntries(forest) == {i \in 1..Len(forest) : forest[i].Tree = Nil /\ forest[i].Error # <<>>}

AllAvailable(forest) == \A t \in Trees(forest) : \A n \in NodesOf(t) : n.Status = Available

Occurs(d, forest) == \E i \in 1..Len(forest) : forest[i] = d

\* C14: an entry whose root could not be fetched adds nothing to the summary
\* (no header, no failure), so a forest whose only problems are such entries
\* gives hasFailures = FALSE and the all-healthy line; it adds nothing to the
\* descendant set and is removed by the filter only if its (kind, name) is a
\* descendant of a tree of the forest.
C14_NilRootContributesNothing ==
    pc = "done" =>
        /\ summary = GetSummary(SelectSeq(filteredResults, HasTree)).text
        /\ \A i \in NilEntries(filteredResults) : \A k \in 1..Len(summary) :
              summary[k] # TopParentLine(filteredResults[i])
        /\ AllAvailable(filteredResults) => ~hasFailures /\ SentinelEmitted
        /\ SelectSeq(filteredResults, HasTree)
              = FilterRedundant(SelectSeq(results, HasTree))
        /\ \A i \in NilEntries(results) :
              Occurs(results[i], filteredResults)
                  <=> ~DescendantPair(results[i].Kind, results[i].Name, results)

\* A root fetch error next to a healthy tree: the summary says all healthy;
\* the failed root is still in the filtered forest.
C14_Witness ==
    /\ pc = "done"
    /\ NilEntries(filteredResults) # {}
    /\ Trees(filteredResults) # {}
    /\ ~hasFailures
    /\ SentinelEmitted

====
